---------------------------- MODULE Spec2Model ----------------------------
(***************************************************************************)
(* A model of the index_tools crate: the in-memory index builder           *)
(* (index.rs), the binary index file writer (write.rs), the two readers    *)
(* of that format (read.rs), the temporary file allocator (tmp.rs) and the *)
(* merge engine that drives them.                                          *)
(*                                                                         *)
(* Files are byte sequences; a byte offset p of the source is the element  *)
(* p + 1 of the sequence.  Strings are sequences of character codes, so    *)
(* that String's ordering is the lexicographic order of the codes.         *)
(*                                                                         *)
(* Every length, count and offset of the model is far below 2^31, so the   *)
(* u32, u64 and usize arithmetic of the source never wraps here; the       *)
(* encodings below are those of byteorder for such values.                 *)
(***************************************************************************)
EXTENDS Integers, Sequences, FiniteSets, TLC

VARIABLES
    pc,       \* position of the driving program
    index,    \* the accumulated InMemoryIndex
    doc,      \* Option<InMemoryIndex>: the index of the document just read
    fs,       \* the directory: file name -> bytes of the file
    tmp_n,    \* TmpDir.n
    written,  \* file name -> the InMemoryIndex that was written to it
    parsed,   \* Option<(file name, result of get_index_from_file)>
    inputs,   \* the file names handed to the merge, in order
    streams,  \* the merge pass's Vec<IndexFileReader>
    output,   \* Option<(file name, IndexFileWriter)> of the merge pass
    cur,      \* the merge pass's loop state
    work,     \* the merge rounds: fan-in limit, files to merge, files produced
    nread,    \* characters of document text read so far
    tmpdirs   \* the TmpDir values of the allocator's callers, create() by step

vars == <<pc, index, doc, fs, tmp_n, written, parsed, inputs, streams, output, cur,
          work, nread, tmpdirs>>

---------------------------------------------------------------------------
(* Bounds of the model. *)

\* Most characters of document text the indexing program reads.
MaxChars == 5

\* Most characters of document text read before a merge.
MaxMergeChars == 3

\* Most index files handed to a merge.
MaxInputs == 3

\* The fan-in limits a merge is run with.
FanIns == {2, 3}

\* The characters document texts are made of: 'A', 'b' and ' '.
Chars == {65, 98, 32}

\* Most characters of document text in a file handed to the readers.
MaxReadChars == 3

\* The greatest counter value a create() call starts at, and the greatest
\* counter value in the name of a file made by another program.
MaxTmpNames == 10

\* Most files other programs make in the directory.
MaxExternal == 1

---------------------------------------------------------------------------
(* Little-endian integers (byteorder) and byte buffers. *)

HASH_LENGTH == 32

HEADER_SIZE == 8

None == <<>>

Some(x) == <<x>>

\* write_u32::<LittleEndian>
U32LE(n) ==
    << n % 256, (n \div 256) % 256, (n \div 65536) % 256, (n \div 16777216) % 256 >>

\* write_u64::<LittleEndian>: the upper four bytes of a value below 2^32 are 0.
U64LE(n) == U32LE(n) \o <<0, 0, 0, 0>>

\* The bytes of buf at offsets pos .. pos + len - 1.
Slice(buf, pos, len) == SubSeq(buf, pos + 1, pos + len)

\* read_u32::<LittleEndian> of the four bytes at offset pos.
GetU32(buf, pos) ==
    buf[pos + 1] + 256 * buf[pos + 2] + 65536 * buf[pos + 3] + 16777216 * buf[pos + 4]

\* read_u64::<LittleEndian> of the eight bytes at offset pos.
GetU64(buf, pos) ==
    IF GetU32(buf, pos + 4) = 0 THEN GetU32(buf, pos)
    ELSE GetU32(buf, pos) + 65536 * (65536 * GetU32(buf, pos + 4))

\* read_exact of len bytes at offset pos succeeds iff the bytes are there.
CanRead(buf, pos, len) == pos + len <= Len(buf)

\* String::from_utf8 accepts the bytes; the model's strings are ASCII.
ValidUtf8(bytes) == \A i \in 1..Len(bytes) : bytes[i] < 128

\* String's Ord: lexicographic on the bytes.
RECURSIVE StrLess(_, _)
StrLess(a, b) ==
    IF b = <<>> THEN FALSE
    ELSE IF a = <<>> THEN TRUE
    ELSE IF a[1] # b[1] THEN a[1] < b[1]
    ELSE StrLess(Tail(a), Tail(b))

StrLeq(a, b) == a = b \/ StrLess(a, b)

\* The least string of a non-empty set.
MinStr(S) == CHOOSE x \in S : \A y \in S : StrLeq(x, y)

\* The keys from the greatest down: the comparison the wrong way round.
RECURSIVE SortTerms_Descending(_)
SortTerms_Descending(S) ==
    IF S = {} THEN <<>>
    ELSE LET m == MinStr(S) IN SortTerms_Descending(S \ {m}) \o <<m>>

\* sort_by(|a, b| a.cmp(b)) on distinct keys.
RECURSIVE SortTerms(_)
SortTerms(S) ==
    IF S = {} THEN <<>>
    ELSE LET m == MinStr(S) IN <<m>> \o SortTerms(S \ {m})

\* The concatenation of a sequence of byte buffers.
RECURSIVE Concat(_)
Concat(bufs) == IF bufs = <<>> THEN <<>> ELSE bufs[1] \o Concat(Tail(bufs))

---------------------------------------------------------------------------
(* index.rs: tokenize, InMemoryIndex. *)

\* char::is_alphanumeric, on ASCII.
IsAlphanumeric(ch) == ch \in (48..57) \cup (65..90) \cup (97..122)

\* str::to_lowercase, on ASCII.
ToLowercase(text) ==
    [i \in 1..Len(text) |-> IF text[i] \in 65..90 THEN text[i] + 32 ELSE text[i]]

\* split on every non-alphanumeric character; word is the fragment being read.
RECURSIVE Split(_, _, _)
Split(text, i, word) ==
    IF i > Len(text) THEN <<word>>
    ELSE IF IsAlphanumeric(text[i]) THEN Split(text, i + 1, Append(word, text[i]))
    ELSE <<word>> \o Split(text, i + 1, <<>>)

\* filter(|word| !word.is_empty())
Tokenize(text) == SelectSeq(Split(text, 1, <<>>), LAMBDA w : w # <<>>)

\* InMemoryIndex::new
NewIndex == [word_count |-> 0, map |-> <<>>]

\* The Hit a term gets on first sight: the hash and a zero offsets count.
NewHit(document_hash) == document_hash \o U32LE(0)

\* IndexToken with the word offset counted from 1 instead of 0.
IndexToken_OffsetFromOne(idx, document_hash, i, token) ==
    LET hits0 ==
            IF token \in DOMAIN idx.map THEN idx.map[token]
            ELSE << NewHit(document_hash) >>
        pushed == hits0[1] \o U32LE(i + 1)
        offsets_count == GetU32(pushed, HASH_LENGTH) + 1
        patched ==
            [k \in 1..Len(pushed) |->
                IF k \in (HASH_LENGTH + 1)..(HASH_LENGTH + 4)
                THEN U32LE(offsets_count)[k - HASH_LENGTH]
                ELSE pushed[k]]
        hits1 == [hits0 EXCEPT ![1] = patched]
    IN  [word_count |-> idx.word_count + 1,
         map |-> [t \in DOMAIN idx.map \cup {token} |->
                    IF t = token THEN hits1 ELSE idx.map[t]]]

\* IndexToken that leaves the count field as it was.
IndexToken_CountNotPatched(idx, document_hash, i, token) ==
    LET hits0 ==
            IF token \in DOMAIN idx.map THEN idx.map[token]
            ELSE << NewHit(document_hash) >>
        hits1 == [hits0 EXCEPT ![1] = hits0[1] \o U32LE(i)]
    IN  [word_count |-> idx.word_count + 1,
         map |-> [t \in DOMAIN idx.map \cup {token} |->
                    IF t = token THEN hits1 ELSE idx.map[t]]]

\* The loop body of from_single_document for the token at position i.
IndexToken(idx, document_hash, i, token) ==
    LET hits0 ==
            IF token \in DOMAIN idx.map THEN idx.map[token]
            ELSE << NewHit(document_hash) >>
        pushed == hits0[1] \o U32LE(i)
        offsets_count == GetU32(pushed, HASH_LENGTH) + 1
        patched ==
            [k \in 1..Len(pushed) |->
                IF k \in (HASH_LENGTH + 1)..(HASH_LENGTH + 4)
                THEN U32LE(offsets_count)[k - HASH_LENGTH]
                ELSE pushed[k]]
        hits1 == [hits0 EXCEPT ![1] = patched]
    IN  [word_count |-> idx.word_count + 1,
         map |-> [t \in DOMAIN idx.map \cup {token} |->
                    IF t = token THEN hits1 ELSE idx.map[t]]]

RECURSIVE IndexTokens(_, _, _, _)
IndexTokens(idx, document_hash, tokens, i) ==
    IF i >= Len(tokens) THEN idx
    ELSE IndexTokens(IndexToken(idx, document_hash, i, tokens[i + 1]),
                     document_hash, tokens, i + 1)

\* InMemoryIndex::from_single_document
FromSingleDocument(document_hash, text) ==
    IndexTokens(NewIndex, document_hash, Tokenize(ToLowercase(text)), 0)

\* merge that overwrites the hit list of a term both indexes hold.
MergeIndex_Replace(self, other) ==
    [word_count |-> self.word_count + other.word_count,
     map |-> [t \in DOMAIN self.map \cup DOMAIN other.map |->
                IF t \in DOMAIN other.map THEN other.map[t] ELSE self.map[t]]]

\* merge that puts other's hits before self's.
MergeIndex_OtherFirst(self, other) ==
    [word_count |-> self.word_count + other.word_count,
     map |-> [t \in DOMAIN self.map \cup DOMAIN other.map |->
                (IF t \in DOMAIN other.map THEN other.map[t] ELSE <<>>)
                \o (IF t \in DOMAIN self.map THEN self.map[t] ELSE <<>>)]]

\* merge without self.word_count += other.word_count.
MergeIndex_WordCountKept(self, other) ==
    [word_count |-> self.word_count,
     map |-> [t \in DOMAIN self.map \cup DOMAIN other.map |->
                (IF t \in DOMAIN self.map THEN self.map[t] ELSE <<>>)
                \o (IF t \in DOMAIN other.map THEN other.map[t] ELSE <<>>)]]

\* InMemoryIndex::merge
MergeIndex(self, other) ==
    [word_count |-> self.word_count + other.word_count,
     map |-> [t \in DOMAIN self.map \cup DOMAIN other.map |->
                (IF t \in DOMAIN self.map THEN self.map[t] ELSE <<>>)
                \o (IF t \in DOMAIN other.map THEN other.map[t] ELSE <<>>)]]

\* InMemoryIndex::is_empty
IsEmpty(idx) == idx.word_count = 0

\* The content hash of a document, which the callers compute with SHA-256:
\* here the text itself, its length and zero padding, so that different texts
\* have different hashes.
Digest(text) ==
    [k \in 1..HASH_LENGTH |->
        IF k <= Len(text) THEN text[k]
        ELSE IF k = HASH_LENGTH THEN Len(text)
        ELSE 0]

---------------------------------------------------------------------------
(* tmp.rs: TmpDir. *)

HexChar(d) == IF d < 10 THEN 48 + d ELSE 87 + d

RECURSIVE HexDigits(_)
HexDigits(n) ==
    IF n < 16 THEN <<HexChar(n)>> ELSE HexDigits(n \div 16) \o <<HexChar(n % 16)>>

\* format!("{:08x}", n): the hexadecimal digits, zero-padded to 8 at least.
Hex08(n) ==
    LET d == HexDigits(n)
    IN  [k \in 1..(IF Len(d) < 8 THEN 8 - Len(d) ELSE 0) |-> 48] \o d

\* format!("tmp{:08x}.dat", n)
TmpName(n) == <<116, 109, 112>> \o Hex08(n) \o <<46, 100, 97, 116>>

\* TmpDir::create on a directory holding the file names `names`: the loop
\* from the attempt numbered retry on.  create_new fails with AlreadyExists
\* iff the name is taken.
RECURSIVE CreateFrom(_, _, _)
CreateFrom(names, n, retry) ==
    IF TmpName(n) \notin names
    THEN [ok |-> TRUE, filename |-> TmpName(n), n |-> n + 1]
    ELSE IF retry < 10 THEN CreateFrom(names, n + 1, retry + 1)
    ELSE [ok |-> FALSE, filename |-> TmpName(n), n |-> n + 1]

TmpCreate(names, n) == CreateFrom(names, n, 1)

---------------------------------------------------------------------------
(* write.rs: IndexFileWriter.  `file` is what has been written through the *)
(* BufWriter so far, the 8 bytes of the header included.                   *)

\* IndexFileWriter::new
WriterNew == [offset |-> HEADER_SIZE, file |-> U64LE(0), contents_buf |-> <<>>]

\* write_data that puts the bytes in front of the data written before.
WriteData_Prepend(w, buf) ==
    [w EXCEPT !.file = SubSeq(@, 1, HEADER_SIZE) \o buf
                         \o SubSeq(@, HEADER_SIZE + 1, Len(@)),
              !.offset = @ + Len(buf)]

\* IndexFileWriter::write_data
WriteData(w, buf) ==
    [w EXCEPT !.file = @ \o buf, !.offset = @ + Len(buf)]

\* write_contents_entry with the byte length written before the offset.
WriteContentsEntry_LengthFirst(w, term, doc_count, offset, nbytes) ==
    [w EXCEPT !.contents_buf =
        @ \o U64LE(nbytes) \o U64LE(offset) \o U32LE(doc_count)
          \o U32LE(Len(term)) \o term]

\* IndexFileWriter::write_contents_entry
WriteContentsEntry(w, term, doc_count, offset, nbytes) ==
    [w EXCEPT !.contents_buf =
        @ \o U64LE(offset) \o U64LE(nbytes) \o U32LE(doc_count)
          \o U32LE(Len(term)) \o term]

\* finish without the seek back to the header, which stays 0.
Finish_HeaderNotPatched(w) == w.file \o w.contents_buf

\* IndexFileWriter::finish: the bytes of the finished file.
Finish(w) ==
    LET appended == w.file \o w.contents_buf
    IN  U64LE(w.offset) \o SubSeq(appended, HEADER_SIZE + 1, Len(appended))

\* The inner loop of write_index_to_tmp_file: every Hit of one term.
RECURSIVE WriteHits(_, _)
WriteHits(w, hits) ==
    IF hits = <<>> THEN w ELSE WriteHits(WriteData(w, hits[1]), Tail(hits))

\* The outer loop of write_index_to_tmp_file over the sorted (term, hits).
RECURSIVE WriteTerms(_, _, _)
WriteTerms(w, map, terms) ==
    IF terms = <<>> THEN w
    ELSE LET term == terms[1]
             hits == map[term]
             doc_count == Len(hits)
             start == w.offset
             w1 == WriteHits(w, hits)
             stop == w1.offset
         IN  WriteTerms(WriteContentsEntry(w1, term, doc_count, start, stop - start),
                        map, Tail(terms))

\* write_index_to_tmp_file, after tmp_dir.create(): the bytes of the file.
WriteIndex(idx) == Finish(WriteTerms(WriterNew, idx.map, SortTerms(DOMAIN idx.map)))

---------------------------------------------------------------------------
(* read.rs: IndexFileReader.  A BufReader<File> is the bytes of the file   *)
(* and a position in them; the two handles of a reader share the bytes.    *)

\* IndexFileReader::read_entry at position pos of the table of contents:
\* kind "some" with the entry and the position after it, "none" at the end
\* of the table, "err" for an error.
ReadEntry(f, pos) ==
    IF ~CanRead(f, pos, 8) THEN [kind |-> "none", pos |-> pos]
    ELSE IF ~CanRead(f, pos, 24) THEN [kind |-> "err", pos |-> pos]
    ELSE LET offset == GetU64(f, pos)
             nbytes == GetU64(f, pos + 8)
             doc_count == GetU32(f, pos + 16)
             term_len == GetU32(f, pos + 20)
         IN  IF ~CanRead(f, pos + 24, term_len) THEN [kind |-> "err", pos |-> pos]
             ELSE IF ~ValidUtf8(Slice(f, pos + 24, term_len))
             THEN [kind |-> "err", pos |-> pos]
             ELSE [kind |-> "some",
                   entry |-> [term |-> Slice(f, pos + 24, term_len),
                              doc_count |-> doc_count,
                              offset |-> offset,
                              nbytes |-> nbytes],
                   pos |-> pos + 24 + term_len]

\* open_and_delete without the remove_file.
OpenAndDelete_FileKept(dir, filename) ==
    IF filename \notin DOMAIN dir THEN [ok |-> FALSE, dir |-> dir]
    ELSE LET f == dir[filename] IN
    IF ~CanRead(f, 0, 8) THEN [ok |-> FALSE, dir |-> dir]
    ELSE LET first == ReadEntry(f, GetU64(f, 0)) IN
    IF first.kind = "err" THEN [ok |-> FALSE, dir |-> dir]
    ELSE [ok |-> TRUE,
          dir |-> dir,
          reader |-> [file |-> f,
                      data |-> 8,
                      table_of_contents |-> first.pos,
                      next |-> IF first.kind = "some" THEN Some(first.entry) ELSE None]]

\* open_and_delete whose data handle has not read the header.
OpenAndDelete_DataFromZero(dir, filename) ==
    IF filename \notin DOMAIN dir THEN [ok |-> FALSE, dir |-> dir]
    ELSE LET f == dir[filename] IN
    IF ~CanRead(f, 0, 8) THEN [ok |-> FALSE, dir |-> dir]
    ELSE LET first == ReadEntry(f, GetU64(f, 0)) IN
    IF first.kind = "err" THEN [ok |-> FALSE, dir |-> dir]
    ELSE [ok |-> TRUE,
          dir |-> [p \in DOMAIN dir \ {filename} |-> dir[p]],
          reader |-> [file |-> f,
                      data |-> 0,
                      table_of_contents |-> first.pos,
                      next |-> IF first.kind = "some" THEN Some(first.entry) ELSE None]]

\* open_and_delete that removes the file as soon as it has opened it.
OpenAndDelete_RemovedFirst(dir, filename) ==
    IF filename \notin DOMAIN dir THEN [ok |-> FALSE, dir |-> dir]
    ELSE LET f == dir[filename]
             removed == [p \in DOMAIN dir \ {filename} |-> dir[p]]
         IN
    IF ~CanRead(f, 0, 8) THEN [ok |-> FALSE, dir |-> removed]
    ELSE LET first == ReadEntry(f, GetU64(f, 0)) IN
    IF first.kind = "err" THEN [ok |-> FALSE, dir |-> removed]
    ELSE [ok |-> TRUE,
          dir |-> removed,
          reader |-> [file |-> f,
                      data |-> 8,
                      table_of_contents |-> first.pos,
                      next |-> IF first.kind = "some" THEN Some(first.entry) ELSE None]]

\* IndexFileReader::open_and_delete on the directory dir: the reader, and
\* the directory afterwards.
OpenAndDelete(dir, filename) ==
    IF filename \notin DOMAIN dir THEN [ok |-> FALSE, dir |-> dir]
    ELSE LET f == dir[filename] IN
    IF ~CanRead(f, 0, 8) THEN [ok |-> FALSE, dir |-> dir]
    ELSE LET first == ReadEntry(f, GetU64(f, 0)) IN
    IF first.kind = "err" THEN [ok |-> FALSE, dir |-> dir]
    ELSE [ok |-> TRUE,
          dir |-> [p \in DOMAIN dir \ {filename} |-> dir[p]],
          reader |-> [file |-> f,
                      data |-> 8,
                      table_of_contents |-> first.pos,
                      next |-> IF first.kind = "some" THEN Some(first.entry) ELSE None]]

\* IndexFileReader::peek
Peek(r) == r.next

\* is_at that does not compare the term.
IsAt_AnyTerm(r, term) == r.next # None

\* IndexFileReader::is_at
IsAt(r, term) == r.next # None /\ r.next[1].term = term

\* move_entry_to that reads every entry's bytes from where the data begins.
MoveEntryTo_DataNotAdvanced(r, out) ==
    IF r.next = None THEN [kind |-> "panic", reader |-> r, out |-> out]
    ELSE LET e == r.next[1] IN
    IF ~CanRead(r.file, HEADER_SIZE, e.nbytes)
    THEN [kind |-> "err", reader |-> r, out |-> out]
    ELSE LET buf == Slice(r.file, HEADER_SIZE, e.nbytes)
             out1 == WriteData(out, buf)
             nxt == ReadEntry(r.file, r.table_of_contents)
         IN  IF nxt.kind = "err" THEN [kind |-> "err", reader |-> r, out |-> out1]
             ELSE [kind |-> "ok",
                   reader |-> [r EXCEPT !.table_of_contents = nxt.pos,
                                        !.next = IF nxt.kind = "some"
                                                 THEN Some(nxt.entry) ELSE None],
                   out |-> out1]

\* move_entry_to that does not read the next entry ahead.
MoveEntryTo_NextDropped(r, out) ==
    IF r.next = None THEN [kind |-> "panic", reader |-> r, out |-> out]
    ELSE LET e == r.next[1] IN
    IF ~CanRead(r.file, r.data, e.nbytes)
    THEN [kind |-> "err", reader |-> r, out |-> out]
    ELSE [kind |-> "ok",
          reader |-> [r EXCEPT !.data = @ + e.nbytes, !.next = None],
          out |-> WriteData(out, Slice(r.file, r.data, e.nbytes))]

\* move_entry_to that keeps its pending entry at the end of the table.
MoveEntryTo_LastEntryKept(r, out) ==
    IF r.next = None THEN [kind |-> "panic", reader |-> r, out |-> out]
    ELSE LET e == r.next[1] IN
    IF ~CanRead(r.file, r.data, e.nbytes)
    THEN [kind |-> "err", reader |-> r, out |-> out]
    ELSE LET buf == Slice(r.file, r.data, e.nbytes)
             out1 == WriteData(out, buf)
             r1 == [r EXCEPT !.data = @ + e.nbytes]
             nxt == ReadEntry(r.file, r.table_of_contents)
         IN  IF nxt.kind = "err" THEN [kind |-> "err", reader |-> r1, out |-> out1]
             ELSE [kind |-> "ok",
                   reader |-> [r1 EXCEPT !.table_of_contents = nxt.pos,
                                         !.next = IF nxt.kind = "some"
                                                  THEN Some(nxt.entry) ELSE r.next],
                   out |-> out1]

\* IndexFileReader::move_entry_to: "panic" with no entry to move, "err" for
\* an io::Error, "ok" otherwise, with the reader and the writer afterwards.
\* (nbytes > usize::MAX is impossible where usize has 64 bits.)
MoveEntryTo(r, out) ==
    IF r.next = None THEN [kind |-> "panic", reader |-> r, out |-> out]
    ELSE LET e == r.next[1] IN
    IF ~CanRead(r.file, r.data, e.nbytes)
    THEN [kind |-> "err", reader |-> r, out |-> out]
    ELSE LET buf == Slice(r.file, r.data, e.nbytes)
             out1 == WriteData(out, buf)
             r1 == [r EXCEPT !.data = @ + e.nbytes]
             nxt == ReadEntry(r.file, r.table_of_contents)
         IN  IF nxt.kind = "err" THEN [kind |-> "err", reader |-> r1, out |-> out1]
             ELSE [kind |-> "ok",
                   reader |-> [r1 EXCEPT !.table_of_contents = nxt.pos,
                                         !.next = IF nxt.kind = "some"
                                                  THEN Some(nxt.entry) ELSE None],
                   out |-> out1]

\* The Hits of one term, of which only the first is read.
DecodeHits_OneDocument(hits_raw, pos, doc_count, entry) ==
    IF doc_count = 0 THEN [ok |-> TRUE, entry |-> entry]
    ELSE IF ~CanRead(hits_raw, pos, HASH_LENGTH + 4) THEN [ok |-> FALSE]
    ELSE LET hash == Slice(hits_raw, pos, HASH_LENGTH)
             offsets_count == GetU32(hits_raw, pos + HASH_LENGTH)
             first == pos + HASH_LENGTH + 4
         IN  IF ~CanRead(hits_raw, first, 4 * offsets_count) THEN [ok |-> FALSE]
             ELSE [ok |-> TRUE,
                   entry |-> [d \in DOMAIN entry \cup {hash} |->
                                IF d = hash
                                THEN [k \in 1..offsets_count |->
                                        GetU32(hits_raw, first + 4 * (k - 1))]
                                ELSE entry[d]]]

\* The Hits of one term in get_index_from_file: doc_count times a hash, a
\* count and that many offsets, read from hits_raw at position pos into the
\* HashMap entry.  "err" when hits_raw ends early.
RECURSIVE DecodeHits(_, _, _, _)
DecodeHits(hits_raw, pos, doc_count, entry) ==
    IF doc_count = 0 THEN [ok |-> TRUE, entry |-> entry]
    ELSE IF ~CanRead(hits_raw, pos, HASH_LENGTH + 4) THEN [ok |-> FALSE]
    ELSE LET hash == Slice(hits_raw, pos, HASH_LENGTH)
             offsets_count == GetU32(hits_raw, pos + HASH_LENGTH)
             first == pos + HASH_LENGTH + 4
         IN  IF ~CanRead(hits_raw, first, 4 * offsets_count) THEN [ok |-> FALSE]
             ELSE LET offsets == [k \in 1..offsets_count |->
                                    GetU32(hits_raw, first + 4 * (k - 1))]
                  IN  DecodeHits(hits_raw, first + 4 * offsets_count, doc_count - 1,
                                 [d \in DOMAIN entry \cup {hash} |->
                                    IF d = hash THEN offsets ELSE entry[d]])

\* The loop of get_index_from_file over the table of contents from pos on.
RECURSIVE DecodeTable(_, _, _)
DecodeTable(f, pos, acc) ==
    IF ~CanRead(f, pos, 8) THEN [kind |-> "ok", index |-> acc]
    ELSE IF ~CanRead(f, pos, 24) THEN [kind |-> "err"]
    ELSE LET offset == GetU64(f, pos)
             nbytes == GetU64(f, pos + 8)
             doc_count == GetU32(f, pos + 16)
             term_length == GetU32(f, pos + 20)
         IN  IF ~CanRead(f, pos + 24, term_length) THEN [kind |-> "err"]
             ELSE IF ~ValidUtf8(Slice(f, pos + 24, term_length)) THEN [kind |-> "panic"]
             ELSE IF ~CanRead(f, offset, nbytes) THEN [kind |-> "err"]
             ELSE LET term == Slice(f, pos + 24, term_length)
                      hits == DecodeHits(Slice(f, offset, nbytes), 0, doc_count, <<>>)
                  IN  IF ~hits.ok THEN [kind |-> "err"]
                      ELSE DecodeTable(f, pos + 24 + term_length,
                              [word_count |-> acc.word_count + 1,
                               map |-> [t \in DOMAIN acc.map \cup {term} |->
                                          IF t = term THEN hits.entry ELSE acc.map[t]]])

\* get_index_from_file on an opened file with the bytes f.
DecodeFile(f) ==
    IF ~CanRead(f, 0, 8) THEN [kind |-> "err"]
    ELSE DecodeTable(f, GetU64(f, 0), [word_count |-> 0, map |-> <<>>])

\* IndexFileReader::get_index_from_file
GetIndexFromFile(dir, filename) ==
    IF filename \notin DOMAIN dir THEN [kind |-> "err"]
    ELSE DecodeFile(dir[filename])

---------------------------------------------------------------------------
(* The indexing program.  Documents are indexed one at a time and merged   *)
(* into the accumulated index, which is written to a temporary file; a     *)
(* file is read back with get_index_from_file.                             *)

RECURSIVE TextsOfLen(_)
TextsOfLen(n) ==
    IF n = 0 THEN {<<>>}
    ELSE {Append(t, c) : t \in TextsOfLen(n - 1), c \in Chars}

TextsUpTo(n) == UNION {TextsOfLen(k) : k \in 0..n}

NoPass == [term |-> None, i |-> 1, start |-> 0, nbytes |-> 0, doc_count |-> 0]

NoWork == [fanin |-> 0, queue |-> <<>>, produced |-> <<>>]

buildVars == <<index, doc, written, nread>>

mergeVars == <<inputs, streams, output, cur, work>>

allocVars == <<tmpdirs>>

\* The TmpDir values in use: one made by TmpDir::new, the other a clone.
Allocators == {1, 2}

NoResult == [kind |-> "none", filename |-> <<>>]

\* TmpDir::new, and a TmpDir not made yet.
TmpDirNew == [live |-> TRUE, n |-> 1, retry |-> 1, result |-> NoResult, paths |-> <<>>]

NoTmpDir == [TmpDirNew EXCEPT !.live = FALSE]

\* dir with the file filename holding bytes.
WithFile(dir, filename, bytes) ==
    [p \in DOMAIN dir \cup {filename} |-> IF p = filename THEN bytes ELSE dir[p]]

Init ==
    /\ pc = "build"
    /\ index = NewIndex
    /\ doc = None
    /\ fs = <<>>
    /\ tmp_n = 1
    /\ written = <<>>
    /\ parsed = None
    /\ inputs = <<>>
    /\ streams = <<>>
    /\ output = None
    /\ cur = NoPass
    /\ work = NoWork
    /\ nread = 0
    /\ tmpdirs = [a \in Allocators |-> IF a = 1 THEN TmpDirNew ELSE NoTmpDir]

\* from_single_document on a document of the corpus and its content hash,
\* while at most max characters have been read.
ReadDocumentUpTo(max) ==
    /\ pc = "build"
    /\ doc = None
    /\ \E text \in TextsUpTo(max) :
        /\ nread + Len(text) <= max
        /\ nread' = nread + Len(text)
        /\ doc' = Some([document_hash |-> Digest(text), text |-> text,
                        index |-> FromSingleDocument(Digest(text), text)])
    /\ UNCHANGED <<pc, index, fs, tmp_n, written, parsed>>
    /\ UNCHANGED mergeVars
    /\ UNCHANGED allocVars

ReadDocument == ReadDocumentUpTo(MaxChars)

\* index.merge(doc)
MergeDocument ==
    /\ pc = "build"
    /\ doc # None
    /\ index' = MergeIndex(index, doc[1].index)
    /\ doc' = None
    /\ UNCHANGED <<pc, fs, tmp_n, written, parsed, nread>>
    /\ UNCHANGED mergeVars
    /\ UNCHANGED allocVars

\* write_index_to_tmp_file(index, &mut tmp_dir); the program goes on at next.
SpillThen(next) ==
    /\ pc = "build"
    /\ doc = None
    /\ LET created == TmpCreate(DOMAIN fs, tmp_n)
       IN  /\ created.ok
           /\ tmp_n' = created.n
           /\ fs' = WithFile(fs, created.filename, WriteIndex(index))
           /\ written' = WithFile(written, created.filename, index)
    /\ index' = NewIndex
    /\ pc' = next
    /\ UNCHANGED <<doc, parsed, nread>>
    /\ UNCHANGED mergeVars
    /\ UNCHANGED allocVars

Spill == SpillThen("spilled")

\* IndexFileReader::get_index_from_file(filename)
Decode ==
    /\ pc \in {"spilled", "merged"}
    /\ \E filename \in DOMAIN fs :
        parsed' = Some([filename |-> filename, result |-> GetIndexFromFile(fs, filename)])
    /\ pc' = "decoded"
    /\ UNCHANGED <<fs, tmp_n>>
    /\ UNCHANGED buildVars
    /\ UNCHANGED mergeVars
    /\ UNCHANGED allocVars

Next == ReadDocument \/ MergeDocument \/ Spill \/ Decode

Spec == Init /\ [][Next]_vars

---------------------------------------------------------------------------
(* The merge engine (module merge of lib.rs).  A pass opens a streaming    *)
(* reader on each file of a group, and repeatedly takes the smallest       *)
(* pending term, moves the entry of every reader at that term, in the      *)
(* order of the files, to the output writer, and records one entry of the  *)
(* table of contents for the term: the byte range just written and the     *)
(* document counts added up.  Rounds of passes over groups of at most      *)
(* fan-in files follow each other until one file is left.                  *)

\* A group that takes every file left, whatever the limit.
Take_All(seq, n) == seq

\* The first n elements of a sequence, and the rest.
Take(seq, n) == SubSeq(seq, 1, IF n < Len(seq) THEN n ELSE Len(seq))

Drop(seq, n) == SubSeq(seq, (IF n < Len(seq) THEN n ELSE Len(seq)) + 1, Len(seq))

\* The terms the readers are positioned at.
PendingTerms(readers) ==
    {Peek(readers[k])[1].term : k \in {j \in 1..Len(readers) : Peek(readers[j]) # None}}

\* File names in the order the allocator hands them out.
RECURSIVE InOrder(_)
InOrder(names) ==
    IF names = {} THEN <<>>
    ELSE LET m == MinStr(names) IN <<m>> \o InOrder(names \ {m})

\* The first reader from i on that is at term, or 0.
NextAt(readers, term, i) ==
    LET at == {j \in i..Len(readers) : IsAt(readers[j], term)}
    IN  IF at = {} THEN 0 ELSE CHOOSE j \in at : \A k \in at : j <= k

\* The merge is handed every file of the directory, in the order they were
\* created, and a fan-in limit.
StartMerge ==
    /\ pc = "build"
    /\ doc = None
    /\ IsEmpty(index)
    /\ DOMAIN fs # {}
    /\ \E fanin \in FanIns :
        work' = [fanin |-> fanin, queue |-> <<>>, produced |-> InOrder(DOMAIN fs)]
    /\ pc' = "round"
    /\ UNCHANGED <<fs, tmp_n, parsed, inputs, streams, output, cur>>
    /\ UNCHANGED buildVars
    /\ UNCHANGED allocVars

\* A round is over: one file left ends the merge, more are merged again.
NextRound ==
    /\ pc = "round"
    /\ work.queue = <<>>
    /\ IF Len(work.produced) = 1
       THEN pc' = "merged" /\ UNCHANGED work
       ELSE /\ work' = [work EXCEPT !.queue = work.produced, !.produced = <<>>]
            /\ pc' = "round"
    /\ UNCHANGED <<fs, tmp_n, parsed, inputs, streams, output, cur>>
    /\ UNCHANGED buildVars
    /\ UNCHANGED allocVars

\* The next group of the round: at most fan-in files, and a fresh output
\* file from the temporary allocator.
StartPass ==
    /\ pc = "round"
    /\ work.queue # <<>>
    /\ LET created == TmpCreate(DOMAIN fs, tmp_n)
       IN  /\ created.ok
           /\ tmp_n' = created.n
           /\ fs' = WithFile(fs, created.filename, <<>>)
           /\ output' = Some([filename |-> created.filename, writer |-> WriterNew])
    /\ inputs' = Take(work.queue, work.fanin)
    /\ work' = [work EXCEPT !.queue = Drop(work.queue, work.fanin)]
    /\ streams' = <<>>
    /\ cur' = NoPass
    /\ pc' = "open"
    /\ UNCHANGED parsed
    /\ UNCHANGED buildVars
    /\ UNCHANGED allocVars

\* IndexFileReader::open_and_delete on the next file of the group.
OpenInput ==
    /\ pc = "open"
    /\ LET opened == OpenAndDelete(fs, inputs[Len(streams) + 1])
       IN  /\ opened.ok
           /\ fs' = opened.dir
           /\ streams' = Append(streams, opened.reader)
    /\ pc' = IF Len(streams) + 1 = Len(inputs) THEN "select" ELSE "open"
    /\ UNCHANGED <<tmp_n, parsed, inputs, output, cur, work>>
    /\ UNCHANGED buildVars
    /\ UNCHANGED allocVars

\* The smallest pending term among the readers that have a pending entry.
SelectTerm ==
    /\ pc = "select"
    /\ PendingTerms(streams) # {}
    /\ cur' = [term |-> Some(MinStr(PendingTerms(streams))), i |-> 1,
               start |-> output[1].writer.offset, nbytes |-> 0, doc_count |-> 0]
    /\ pc' = "move"
    /\ UNCHANGED <<fs, tmp_n, parsed, inputs, streams, output, work>>
    /\ UNCHANGED buildVars
    /\ UNCHANGED allocVars

\* move_entry_to on the next reader positioned at the term.
MoveEntry ==
    /\ pc = "move"
    /\ NextAt(streams, cur.term[1], cur.i) # 0
    /\ LET j == NextAt(streams, cur.term[1], cur.i)
           e == Peek(streams[j])[1]
           moved == MoveEntryTo(streams[j], output[1].writer)
       IN  /\ moved.kind = "ok"
           /\ streams' = [streams EXCEPT ![j] = moved.reader]
           /\ output' = Some([output[1] EXCEPT !.writer = moved.out])
           /\ cur' = [cur EXCEPT !.i = j + 1,
                                 !.nbytes = @ + e.nbytes,
                                 !.doc_count = @ + e.doc_count]
    /\ UNCHANGED <<pc, fs, tmp_n, parsed, inputs, work>>
    /\ UNCHANGED buildVars
    /\ UNCHANGED allocVars

\* write_contents_entry for the term, once every reader at it has moved.
RecordEntry ==
    /\ pc = "move"
    /\ NextAt(streams, cur.term[1], cur.i) = 0
    /\ output' = Some([output[1] EXCEPT !.writer =
                        WriteContentsEntry(@, cur.term[1], cur.doc_count,
                                           cur.start, cur.nbytes)])
    /\ pc' = "select"
    /\ UNCHANGED <<fs, tmp_n, parsed, inputs, streams, cur, work>>
    /\ UNCHANGED buildVars
    /\ UNCHANGED allocVars

\* Every reader is exhausted: IndexFileWriter::finish.
FinishPass ==
    /\ pc = "select"
    /\ PendingTerms(streams) = {}
    /\ fs' = WithFile(fs, output[1].filename, Finish(output[1].writer))
    /\ work' = [work EXCEPT !.produced = Append(@, output[1].filename)]
    /\ pc' = "round"
    /\ UNCHANGED <<tmp_n, parsed, inputs, streams, output, cur>>
    /\ UNCHANGED buildVars
    /\ UNCHANGED allocVars

ReadInput == ReadDocumentUpTo(MaxMergeChars)

\* A file is written while fewer than MaxInputs exist.
SpillInput ==
    /\ Cardinality(DOMAIN fs) < MaxInputs
    /\ SpillThen("build")

MergePass == StartPass \/ OpenInput \/ SelectTerm \/ MoveEntry \/ RecordEntry \/ FinishPass

NextMerge ==
    \/ ReadInput
    \/ MergeDocument
    \/ SpillInput
    \/ StartMerge
    \/ NextRound
    \/ MergePass
    \/ Decode

SpecMerge == Init /\ [][NextMerge]_vars

\* The merge is a sequential loop: once started it keeps taking its steps.
FairSpecMerge == SpecMerge /\ WF_vars(NextRound \/ MergePass)

---------------------------------------------------------------------------
(* What a Hit and a file say, read off their bytes by the documented       *)
(* layouts.                                                                *)

\* [32-byte document hash]
HitHash(hit) == Slice(hit, 0, HASH_LENGTH)

\* [4-byte little-endian occurrence count]
HitCount(hit) == GetU32(hit, HASH_LENGTH)

\* [occurrence-count x 4-byte little-endian word offsets]
HitOffsets(hit) ==
    [k \in 1..HitCount(hit) |-> GetU32(hit, HASH_LENGTH + 4 + 4 * (k - 1))]

\* The positions i, counted from 0 and increasing, at which tokens holds term.
RECURSIVE PositionsFrom(_, _, _)
PositionsFrom(tokens, term, i) ==
    IF i >= Len(tokens) THEN <<>>
    ELSE (IF tokens[i + 1] = term THEN <<i>> ELSE <<>>)
         \o PositionsFrom(tokens, term, i + 1)

Positions(tokens, term) == PositionsFrom(tokens, term, 0)

\* The entries of a file's table of contents, as read_entry reads them one
\* after the other from the offset the header gives.
RECURSIVE TocFrom(_, _)
TocFrom(f, pos) ==
    LET r == ReadEntry(f, pos)
    IN  IF r.kind = "some" THEN <<r.entry>> \o TocFrom(f, r.pos) ELSE <<>>

Toc(f) == TocFrom(f, GetU64(f, 0))

RECURSIVE SumLen(_)
SumLen(bufs) == IF bufs = <<>> THEN 0 ELSE Len(bufs[1]) + SumLen(Tail(bufs))

\* The bytes of all Hits of an in-memory index.
RECURSIVE DataBytes(_, _)
DataBytes(map, terms) ==
    IF terms = {} THEN 0
    ELSE LET t == CHOOSE x \in terms : TRUE
         IN  SumLen(map[t]) + DataBytes(map, terms \ {t})

---------------------------------------------------------------------------
(* What a merge pass read and wrote.                                       *)

RECURSIVE SumSeq(_)
SumSeq(ns) == IF ns = <<>> THEN 0 ELSE ns[1] + SumSeq(Tail(ns))

\* The table of contents of the k-th file of the group, as it was opened.
InputToc(k) == Toc(streams[k].file)

TocTerms(toc) == {toc[k].term : k \in 1..Len(toc)}

\* The document counts, and the byte lengths, of the entries of toc for term.
TocDocCount(toc, term) ==
    SumSeq([k \in 1..Len(toc) |-> IF toc[k].term = term THEN toc[k].doc_count ELSE 0])

TocBytes(toc, term) ==
    SumSeq([k \in 1..Len(toc) |-> IF toc[k].term = term THEN toc[k].nbytes ELSE 0])

\* A pass has finished and its readers, writer and output file are as it
\* left them.
PassDone == output # None /\ pc \in {"round", "merged", "decoded"}

OutputFile == fs[output[1].filename]

\* The (document, offsets) pairs a decoded index holds for a term.
Pairs(decoded, term) ==
    IF term \in DOMAIN decoded.map
    THEN {<<d, decoded.map[term][d]>> : d \in DOMAIN decoded.map[term]}
    ELSE {}

\* The documents of a decoded index.
Documents(decoded) == UNION {DOMAIN decoded.map[t] : t \in DOMAIN decoded.map}

\* The (document, offsets) pairs of the Hits of a term in an in-memory index.
HitPairs(idx, term) ==
    IF term \in DOMAIN idx.map
    THEN {<<HitHash(idx.map[term][k]), HitOffsets(idx.map[term][k])>> :
            k \in 1..Len(idx.map[term])}
    ELSE {}

\* move_entry_to has just been called on reader MovedReader.
MoveStep == pc = "move" /\ pc' = "move" /\ streams' # streams

MovedReader == cur'.i - 1

---------------------------------------------------------------------------
(* C1.  After a merge pass, the table of contents of the output file has   *)
(* exactly one entry for every term that some input file has an entry      *)
(* for, and no other entry; the entry's document count is the sum of the   *)
(* document counts of the inputs' entries for the term, and its byte       *)
(* length the sum of their byte lengths.                                   *)
C1_OneEntryPerTerm ==
    PassDone =>
        LET out == Toc(OutputFile)
            N == Len(streams)
        IN  /\ \A k, l \in 1..Len(out) : out[k].term = out[l].term => k = l
            /\ TocTerms(out) = UNION {TocTerms(InputToc(i)) : i \in 1..N}
            /\ \A k \in 1..Len(out) :
                /\ out[k].doc_count
                     = SumSeq([i \in 1..N |-> TocDocCount(InputToc(i), out[k].term)])
                /\ out[k].nbytes
                     = SumSeq([i \in 1..N |-> TocBytes(InputToc(i), out[k].term)])

\* A finished pass over two files or more, with a term that two files hold
\* and a term that only one holds.
C1_Witness ==
    /\ PassDone
    /\ Len(streams) >= 2
    /\ \E t \in TocTerms(Toc(OutputFile)) :
         Cardinality({i \in 1..Len(streams) : t \in TocTerms(InputToc(i))}) >= 2
    /\ \E t \in TocTerms(Toc(OutputFile)) :
         Cardinality({i \in 1..Len(streams) : t \in TocTerms(InputToc(i))}) = 1

(* C2.  The terms of the table of contents a merge pass writes are in      *)
(* non-decreasing lexicographic order, while it is written and in the      *)
(* finished file, and the term being moved is not greater than any term a  *)
(* reader is still positioned at.                                          *)
C2_MergeSorted ==
    /\ output # None =>
        LET sofar == TocFrom(output[1].writer.contents_buf, 0)
        IN  \A k \in 1..(Len(sofar) - 1) : StrLeq(sofar[k].term, sofar[k + 1].term)
    /\ PassDone =>
        LET out == Toc(OutputFile)
        IN  \A k \in 1..(Len(out) - 1) : StrLeq(out[k].term, out[k + 1].term)
    /\ pc = "move" => \A t \in PendingTerms(streams) : StrLeq(cur.term[1], t)

\* A finished pass whose second file starts with a smaller term than its
\* first file.
C2_Witness ==
    /\ PassDone
    /\ Len(streams) >= 2
    /\ Len(Toc(OutputFile)) >= 2
    /\ \E i, j \in 1..Len(streams) :
        /\ i < j
        /\ InputToc(i) # <<>>
        /\ InputToc(j) # <<>>
        /\ StrLess(InputToc(j)[1].term, InputToc(i)[1].term)

(* C3.  After a merge pass over files whose document sets are pairwise     *)
(* disjoint, get_index_from_file on the output succeeds, its terms are the *)
(* terms of the inputs' decodes and every term maps to exactly the union   *)
(* of the (document, offsets) pairs the inputs' decodes map it to.         *)
C3_MergeUnion ==
    PassDone =>
        LET N == Len(streams)
            ins == [i \in 1..N |-> DecodeFile(streams[i].file)]
            out == DecodeFile(OutputFile)
        IN  (/\ \A i \in 1..N : ins[i].kind = "ok"
             /\ \A i, j \in 1..N :
                  i # j => Documents(ins[i].index) \cap Documents(ins[j].index) = {})
            => /\ out.kind = "ok"
               /\ DOMAIN out.index.map = UNION {DOMAIN ins[i].index.map : i \in 1..N}
               /\ \A term \in DOMAIN out.index.map :
                    Pairs(out.index, term)
                      = UNION {Pairs(ins[i].index, term) : i \in 1..N}

\* A finished pass over two files with different documents that share a
\* term: the output maps the term to both documents.
C3_Witness ==
    /\ PassDone
    /\ Len(streams) = 2
    /\ LET a == DecodeFile(streams[1].file).index
           b == DecodeFile(streams[2].file).index
           out == DecodeFile(OutputFile).index
       IN  /\ Documents(a) \cap Documents(b) = {}
           /\ \E term \in DOMAIN a.map \cap DOMAIN b.map :
                Cardinality(DOMAIN out.map[term]) = 2

\* The files the merge was handed, in the order they were created.
Originals == InOrder(DOMAIN written)

\* The merge has ended with one file in the directory, which holds, for
\* every term, the Hits of all the files the merge was handed.
OneFileCoversAll ==
    /\ Cardinality(DOMAIN fs) = 1
    /\ DOMAIN fs = {work.produced[1]}
    /\ LET f == fs[work.produced[1]]
           final == DecodeFile(f)
           N == Len(Originals)
       IN  /\ final.kind = "ok"
           /\ DOMAIN final.index.map
                = UNION {DOMAIN written[Originals[i]].map : i \in 1..N}
           /\ \A term \in DOMAIN final.index.map :
                /\ Pairs(final.index, term)
                     = UNION {HitPairs(written[Originals[i]], term) : i \in 1..N}
                /\ TocDocCount(Toc(f), term)
                     = SumSeq([i \in 1..N |->
                                IF term \in DOMAIN written[Originals[i]].map
                                THEN Len(written[Originals[i]].map[term]) ELSE 0])
                /\ TocBytes(Toc(f), term)
                     = SumSeq([i \in 1..N |->
                                IF term \in DOMAIN written[Originals[i]].map
                                THEN SumLen(written[Originals[i]].map[term]) ELSE 0])

(* C4.  A merge of N >= 1 files with a fan-in limit of 2 or more ends, and *)
(* when it has ended exactly one file is in the directory, whose decode    *)
(* maps every term to the (document, offsets) pairs of all N files and     *)
(* whose table of contents counts all their Hits and bytes.                *)
C4_MultiPass ==
    /\ [](pc = "merged" => OneFileCoversAll)
    /\ (pc = "round") ~> (pc = "merged")

\* Three files merged with fan-in 2, in two rounds, a term being in two of
\* the files.
C4_Witness ==
    /\ pc = "merged"
    /\ work.fanin = 2
    /\ Len(Originals) = 3
    /\ \E term \in DOMAIN written[Originals[1]].map :
         term \in DOMAIN written[Originals[3]].map
    /\ OneFileCoversAll

(* C5.  When open_and_delete returns a reader, the file is no longer in    *)
(* its directory, and the reader's pending entry followed by the entries   *)
(* still to be read are the whole table of contents the file had, each     *)
(* entry's bytes being the bytes the file had at the entry's range; and    *)
(* once a merge pass is over none of its input files is in the directory.  *)
C5_DeleteOnOpen ==
    /\ [][(pc = "open" /\ Len(streams') = Len(streams) + 1) =>
            LET filename == inputs[Len(streams')]
                r == streams'[Len(streams')]
                before == fs[filename]
                pending == r.next \o TocFrom(r.file, r.table_of_contents)
            IN  /\ filename \in DOMAIN fs
                /\ filename \notin DOMAIN fs'
                /\ pending = Toc(before)
                /\ \A k \in 1..Len(pending) :
                    /\ CanRead(r.file, pending[k].offset, pending[k].nbytes)
                    /\ Slice(r.file, pending[k].offset, pending[k].nbytes)
                         = Slice(before, pending[k].offset, pending[k].nbytes)
         ]_vars
    /\ [](PassDone => \A k \in 1..Len(inputs) : inputs[k] \notin DOMAIN fs)

\* A reader with a pending entry on a file that is gone from the directory.
C5_Witness ==
    /\ pc = "select"
    /\ \E k \in 1..Len(streams) :
        /\ Peek(streams[k]) # None
        /\ inputs[k] \notin DOMAIN fs

(* C6, as stated.  One move_entry_to with pending entry e appends e's data *)
(* bytes to the writer's data, records in the writer a table of contents   *)
(* entry with e's term and document count, the byte length e.nbytes and    *)
(* the offset the bytes were written at, and makes the next entry of the   *)
(* source's table of contents the pending one, or none at its end.         *)
C6_MoveRecordsEntry ==
    [][MoveStep =>
        LET r == streams[MovedReader]
            e == Peek(r)[1]
            w == output[1].writer
            w2 == output'[1].writer
            toc == Toc(r.file)
            k == Len(toc) - Len(TocFrom(r.file, r.table_of_contents))
        IN  /\ w2.file = w.file \o Slice(r.file, e.offset, e.nbytes)
            /\ TocFrom(w2.contents_buf, 0)
                 = Append(TocFrom(w.contents_buf, 0),
                          [term |-> e.term, doc_count |-> e.doc_count,
                           offset |-> w.offset, nbytes |-> e.nbytes])
            /\ Peek(streams'[MovedReader])
                 = IF k < Len(toc) THEN Some(toc[k + 1]) ELSE None
    ]_vars

(* C6, amended.  One move_entry_to with pending entry e appends e's data   *)
(* bytes, unchanged, to the writer's data and advances the writer's offset *)
(* by e.nbytes; it records no entry in the writer's table of contents; it  *)
(* makes the next entry of the source's table of contents the pending one, *)
(* or none at its end; and it leaves the other readers alone.              *)
C6_MoveAmended ==
    [][MoveStep =>
        LET r == streams[MovedReader]
            e == Peek(r)[1]
            w == output[1].writer
            w2 == output'[1].writer
            toc == Toc(r.file)
            k == Len(toc) - Len(TocFrom(r.file, r.table_of_contents))
        IN  /\ e = toc[k]
            /\ w2.file = w.file \o Slice(r.file, e.offset, e.nbytes)
            /\ w2.offset = w.offset + e.nbytes
            /\ w2.contents_buf = w.contents_buf
            /\ Peek(streams'[MovedReader])
                 = IF k < Len(toc) THEN Some(toc[k + 1]) ELSE None
            /\ \A j \in 1..Len(streams) : j # MovedReader => streams'[j] = streams[j]
    ]_vars

\* A move has left a reader at its second entry, the writer holding the
\* moved bytes and no entry for them yet.
C6_Witness ==
    /\ pc = "move"
    /\ \E j \in 1..Len(streams) :
        /\ streams[j].data > HEADER_SIZE
        /\ Peek(streams[j]) # None
    /\ output[1].writer.offset > HEADER_SIZE
    /\ output[1].writer.contents_buf = <<>>

(* C7.  A pass over one file copies it entry by entry through the          *)
(* streaming reader: get_index_from_file on the copy succeeds and gives    *)
(* what get_index_from_file gives on the original.                         *)
C7_CopyDecodesAlike ==
    (PassDone /\ Len(streams) = 1) =>
        /\ DecodeFile(OutputFile).kind = "ok"
        /\ DecodeFile(OutputFile) = DecodeFile(streams[1].file)

\* A copied file with two terms.
C7_Witness ==
    /\ PassDone
    /\ Len(streams) = 1
    /\ Len(Toc(OutputFile)) >= 2
    /\ DecodeFile(OutputFile).kind = "ok"

---------------------------------------------------------------------------
(* C8.  Round trip: for every file written by write_index_to_tmp_file,     *)
(* get_index_from_file succeeds and yields exactly the terms of the index  *)
(* that was written; for every term, the decoded documents are the         *)
(* document hashes of the term's Hits, and every Hit's offsets (order and  *)
(* count) are the offsets decoded for its document.                        *)
C8_RoundTrip ==
    parsed # None =>
        LET idx == written[parsed[1].filename]
            res == parsed[1].result
        IN  /\ res.kind = "ok"
            /\ DOMAIN res.index.map = DOMAIN idx.map
            /\ \A term \in DOMAIN idx.map :
                /\ DOMAIN res.index.map[term]
                     = {HitHash(idx.map[term][k]) : k \in 1..Len(idx.map[term])}
                /\ \A k \in 1..Len(idx.map[term]) :
                     res.index.map[term][HitHash(idx.map[term][k])]
                       = HitOffsets(idx.map[term][k])

\* A decoded file with two terms, one of them in two documents, and a
\* document holding a term twice.
C8_Witness ==
    /\ parsed # None
    /\ parsed[1].result.kind = "ok"
    /\ Cardinality(DOMAIN parsed[1].result.index.map) >= 2
    /\ \E term \in DOMAIN parsed[1].result.index.map :
         Cardinality(DOMAIN parsed[1].result.index.map[term]) >= 2
    /\ \E term \in DOMAIN parsed[1].result.index.map :
         \E d \in DOMAIN parsed[1].result.index.map[term] :
            Len(parsed[1].result.index.map[term][d]) >= 2

(* C9.  Layout of a written file: the header holds 8 plus the number of    *)
(* data bytes, which is where the table of contents begins; the table has  *)
(* one entry per term, in strictly ascending term order; the first entry's *)
(* offset is 8, every next entry's offset is the previous entry's offset   *)
(* plus its byte length; the byte lengths add up to the data region; and   *)
(* every entry's document count is the number of Hits of its term.         *)
C9_FileLayout ==
    \A filename \in DOMAIN written :
        LET idx == written[filename]
            f == fs[filename]
            toc == Toc(f)
        IN  /\ GetU64(f, 0) = HEADER_SIZE + DataBytes(idx.map, DOMAIN idx.map)
            /\ Len(toc) = Cardinality(DOMAIN idx.map)
            /\ {toc[k].term : k \in 1..Len(toc)} = DOMAIN idx.map
            /\ \A k \in 1..(Len(toc) - 1) : StrLess(toc[k].term, toc[k + 1].term)
            /\ Len(toc) > 0 => toc[1].offset = HEADER_SIZE
            /\ \A k \in 1..(Len(toc) - 1) :
                 toc[k + 1].offset = toc[k].offset + toc[k].nbytes
            /\ Len(toc) > 0 =>
                 toc[Len(toc)].offset + toc[Len(toc)].nbytes = GetU64(f, 0)
            /\ \A k \in 1..Len(toc) :
                 /\ toc[k].doc_count = Len(idx.map[toc[k].term])
                 /\ toc[k].nbytes = SumLen(idx.map[toc[k].term])

\* A written file with three terms, one of them with two Hits.
C9_Witness ==
    \E filename \in DOMAIN written :
        /\ Len(Toc(fs[filename])) >= 3
        /\ \E k \in 1..Len(Toc(fs[filename])) : Toc(fs[filename])[k].doc_count >= 2

(* C10.  Single-document build: the index from_single_document returns for *)
(* hash H and a text with lowercased tokens t_0 .. t_(n-1) has exactly the *)
(* distinct tokens as its terms, every term has exactly one Hit, that Hit  *)
(* is H, the number of positions and the positions i with t_i = term in    *)
(* increasing order, and word_count = n (no tokens: 0 and an empty map).   *)
C10_SingleDocument ==
    doc # None =>
        LET H == doc[1].document_hash
            tokens == Tokenize(ToLowercase(doc[1].text))
            built == doc[1].index
        IN  /\ built.word_count = Len(tokens)
            /\ DOMAIN built.map = {tokens[k] : k \in 1..Len(tokens)}
            /\ \A term \in DOMAIN built.map :
                /\ Len(built.map[term]) = 1
                /\ HitHash(built.map[term][1]) = H
                /\ HitOffsets(built.map[term][1]) = Positions(tokens, term)
                /\ Len(built.map[term][1])
                     = HASH_LENGTH + 4 + 4 * Len(Positions(tokens, term))
            /\ tokens = <<>> => built = NewIndex

\* The document "A b A": term a at positions 0 and 2, term b at 1.
C10_Witness ==
    /\ doc # None
    /\ doc[1].text = <<65, 32, 98, 32, 65>>
    /\ doc[1].index.word_count = 3
    /\ HitOffsets(doc[1].index.map[<<97>>][1]) = <<0, 2>>
    /\ HitOffsets(doc[1].index.map[<<98>>][1]) = <<1>>

---------------------------------------------------------------------------
(* In-memory merge.                                                        *)

\* The hit list an index holds for a term, empty for a term it lacks.
HitsOf(idx, term) == IF term \in DOMAIN idx.map THEN idx.map[term] ELSE <<>>

\* index.merge(doc) has just been called.
MergeStep == doc # None /\ doc' = None

\* Sorted by document id: in every hit list the documents increase strictly.
SortedByDocument(idx) ==
    \A term \in DOMAIN idx.map :
        \A k, l \in 1..Len(idx.map[term]) :
            k < l => StrLess(HitHash(idx.map[term][k]), HitHash(idx.map[term][l]))

\* The documents of the Hits of an in-memory index.
DocumentsOf(idx) ==
    UNION {{HitHash(idx.map[t][k]) : k \in 1..Len(idx.map[t])} : t \in DOMAIN idx.map}

(* C11.  After self.merge(other) the keys are the keys of both indexes,    *)
(* every term's hit list is self's former hit list for the term followed   *)
(* by other's, Hit for Hit, and word_count is the sum of the two former    *)
(* word_counts.                                                            *)
C11_MergeConcatenates ==
    [][MergeStep =>
        LET a == index
            b == doc[1].index
        IN  /\ DOMAIN index'.map = DOMAIN a.map \cup DOMAIN b.map
            /\ \A term \in DOMAIN index'.map :
                 index'.map[term] = HitsOf(a, term) \o HitsOf(b, term)
            /\ index'.word_count = a.word_count + b.word_count
    ]_vars

\* An index merged from two documents: a term of both, with the Hit of the
\* document merged first in front, and a term of the second only.
C11_Witness ==
    /\ pc = "build"
    /\ doc = None
    /\ index.word_count = 3
    /\ \E t1, t2 \in DOMAIN index.map :
        /\ Len(index.map[t1]) = 2
        /\ Len(index.map[t2]) = 1
        /\ HitHash(index.map[t1][2]) = HitHash(index.map[t2][1])
        /\ HitHash(index.map[t1][1]) # HitHash(index.map[t1][2])

(* C12.  If self and other are sorted by document id and every document of *)
(* other is greater than every document of self, self is sorted by         *)
(* document id after self.merge(other); so an index merged only from such  *)
(* others stays sorted.                                                    *)
C12_MergeKeepsSorted ==
    [][MergeStep =>
        LET a == index
            b == doc[1].index
        IN  (/\ SortedByDocument(a)
             /\ SortedByDocument(b)
             /\ \A x \in DocumentsOf(a), y \in DocumentsOf(b) : StrLess(x, y))
            => SortedByDocument(index')
    ]_vars

\* A sorted index merged from three documents in increasing order, a term
\* being in all three.
C12_Witness ==
    /\ pc = "build"
    /\ doc = None
    /\ SortedByDocument(index)
    /\ \E term \in DOMAIN index.map : Len(index.map[term]) = 3

---------------------------------------------------------------------------
(* TmpDir::create by step: one step for each turn of its loop.  Several    *)
(* TmpDir values on the directory (a TmpDir is Clone, and a clone has its  *)
(* own counter) and other programs making files take their steps in any    *)
(* order.  A file made by create_new is empty; a file made by another      *)
(* program holds a byte.                                                   *)

\* Everything but the directory and the TmpDir values.
progVars == <<pc, tmp_n, parsed, index, doc, written, nread, inputs, streams, output,
              cur, work>>

ExternalBytes == <<120>>

\* The files of the directory other programs made.
ExternalFiles(dir) == {p \in DOMAIN dir : dir[p] = ExternalBytes}

\* #[derive(Clone)]: the clone starts with the counter of the original.
CloneTmpDir(a, b) ==
    /\ tmpdirs[a].live
    /\ tmpdirs[a].retry = 1
    /\ ~tmpdirs[b].live
    /\ tmpdirs' = [tmpdirs EXCEPT ![b] = [TmpDirNew EXCEPT !.n = tmpdirs[a].n]]
    /\ UNCHANGED fs
    /\ UNCHANGED progVars

\* The TmpDir is in create(), at a turn of its loop.  With retry = 1 it is
\* the first turn of a call: a caller calls create() again after Ok or
\* after the exhausted retries, while the counter is at most MaxTmpNames;
\* after another io::Error it gives up, as write_index_to_tmp_file does.
InCreate(a) ==
    /\ tmpdirs[a].live
    /\ tmpdirs[a].retry = 1 =>
        /\ tmpdirs[a].n <= MaxTmpNames
        /\ tmpdirs[a].result.kind # "other"

\* The turn with create(true) in place of create_new(true): a file that is
\* there is opened.
CreateNewOk_ExistingOpened(a) ==
    /\ InCreate(a)
    /\ LET filename == TmpName(tmpdirs[a].n)
       IN  /\ fs' = IF filename \in DOMAIN fs THEN fs ELSE WithFile(fs, filename, <<>>)
           /\ tmpdirs' = [tmpdirs EXCEPT
                            ![a].n = @ + 1,
                            ![a].retry = 1,
                            ![a].result = [kind |-> "ok", filename |-> filename],
                            ![a].paths = Append(@, filename)]
    /\ UNCHANGED progVars

\* A turn of the loop where create_new makes the file: Ok is returned.
CreateNewOk(a) ==
    /\ InCreate(a)
    /\ LET filename == TmpName(tmpdirs[a].n)
       IN  /\ filename \notin DOMAIN fs
           /\ fs' = WithFile(fs, filename, <<>>)
           /\ tmpdirs' = [tmpdirs EXCEPT
                            ![a].n = @ + 1,
                            ![a].retry = 1,
                            ![a].result = [kind |-> "ok", filename |-> filename],
                            ![a].paths = Append(@, filename)]
    /\ UNCHANGED progVars

\* The turn after AlreadyExists without the test of retry: the loop goes on.
CreateNewExists_NoBudget(a) ==
    /\ InCreate(a)
    /\ TmpName(tmpdirs[a].n) \in DOMAIN fs
    /\ tmpdirs' = [tmpdirs EXCEPT ![a].n = @ + 1,
                                  ![a].retry = @ + 1,
                                  ![a].result = NoResult]
    /\ UNCHANGED fs
    /\ UNCHANGED progVars

\* The turn after AlreadyExists without the loop: the error is returned.
CreateNewExists_ReturnsAtOnce(a) ==
    /\ InCreate(a)
    /\ TmpName(tmpdirs[a].n) \in DOMAIN fs
    /\ tmpdirs' = [tmpdirs EXCEPT ![a].n = @ + 1,
                                  ![a].retry = 1,
                                  ![a].result = [kind |-> "exists",
                                                 filename |-> TmpName(tmpdirs[a].n)]]
    /\ UNCHANGED fs
    /\ UNCHANGED progVars

\* A turn of the loop where create_new fails with AlreadyExists: the loop
\* goes on while retry < 10, and the error is returned otherwise.
CreateNewExists(a) ==
    /\ InCreate(a)
    /\ LET filename == TmpName(tmpdirs[a].n)
       IN  /\ filename \in DOMAIN fs
           /\ tmpdirs' =
                IF tmpdirs[a].retry < 10
                THEN [tmpdirs EXCEPT ![a].n = @ + 1,
                                     ![a].retry = @ + 1,
                                     ![a].result = NoResult]
                ELSE [tmpdirs EXCEPT ![a].n = @ + 1,
                                     ![a].retry = 1,
                                     ![a].result = [kind |-> "exists",
                                                    filename |-> filename]]
    /\ UNCHANGED fs
    /\ UNCHANGED progVars

\* A turn of the loop where create_new fails with another io::Error, which
\* is returned.
CreateNewFails(a) ==
    /\ InCreate(a)
    /\ tmpdirs' = [tmpdirs EXCEPT
                    ![a].n = @ + 1,
                    ![a].retry = 1,
                    ![a].result = [kind |-> "other",
                                   filename |-> TmpName(tmpdirs[a].n)]]
    /\ UNCHANGED fs
    /\ UNCHANGED progVars

\* Another program makes a file with a name of the allocator's pattern.
ExternalCreate ==
    /\ Cardinality(ExternalFiles(fs)) < MaxExternal
    /\ \E k \in 1..MaxTmpNames :
        /\ TmpName(k) \notin DOMAIN fs
        /\ fs' = WithFile(fs, TmpName(k), ExternalBytes)
    /\ UNCHANGED tmpdirs
    /\ UNCHANGED progVars

NextTmp ==
    \/ \E a, b \in Allocators : CloneTmpDir(a, b)
    \/ \E a \in Allocators : CreateNewOk(a)
    \/ \E a \in Allocators : CreateNewExists(a)
    \/ \E a \in Allocators : CreateNewFails(a)
    \/ ExternalCreate

SpecTmp == Init /\ [][NextTmp]_vars

---------------------------------------------------------------------------
(* What a turn of create()'s loop did.                                     *)

\* The TmpDir a has just taken a turn of the loop of create().
Turn(a) == tmpdirs[a].live /\ tmpdirs'[a] # tmpdirs[a]

\* The turn has ended the call.
Returned(a) == Turn(a) /\ tmpdirs'[a].retry = 1

\* The turn has ended the call with Ok.
ReturnedOk(a) == Returned(a) /\ tmpdirs'[a].result.kind = "ok"

\* The paths create() has returned, each with its TmpDir and its rank.
ReturnedPaths ==
    UNION {{<<a, i, tmpdirs[a].paths[i]>> : i \in 1..Len(tmpdirs[a].paths)} :
            a \in Allocators}

(* C13.  The paths the create() calls on one TmpDir have returned are      *)
(* pairwise distinct and name files of the directory; the file a call      *)
(* returns was not in the directory before the call's last turn and is     *)
(* made by it; and the counter is greater after every call, by one for     *)
(* every turn of the loop.                                                 *)
C13_CreateUnique ==
    /\ [](\A a \in Allocators :
            /\ \A i, j \in 1..Len(tmpdirs[a].paths) :
                 tmpdirs[a].paths[i] = tmpdirs[a].paths[j] => i = j
            /\ \A i \in 1..Len(tmpdirs[a].paths) :
                 /\ tmpdirs[a].paths[i] \in DOMAIN fs
                 /\ tmpdirs[a].paths[i] \notin ExternalFiles(fs))
    /\ [][\A a \in Allocators :
            /\ ReturnedOk(a) =>
                /\ tmpdirs'[a].paths
                     = Append(tmpdirs[a].paths, tmpdirs'[a].result.filename)
                /\ tmpdirs'[a].result.filename \notin DOMAIN fs
                /\ tmpdirs'[a].result.filename \in DOMAIN fs'
            /\ ~ReturnedOk(a) => tmpdirs'[a].paths = tmpdirs[a].paths
            /\ Turn(a) => tmpdirs'[a].n = tmpdirs[a].n + 1
            /\ Returned(a) => tmpdirs'[a].n > tmpdirs[a].n
       ]_vars

\* Three calls on one TmpDir have returned three files, one of them after
\* a retry on the name of a file another program made.
C13_Witness ==
    /\ Len(tmpdirs[1].paths) = 3
    /\ tmpdirs[1].n = 5
    /\ ~tmpdirs[2].live
    /\ ExternalFiles(fs) # {}
    /\ Cardinality(DOMAIN fs) = 4

(* C14.  A create() call takes at most 10 turns of its loop, each with one *)
(* create_new and the counter advanced by one; the loop goes on only after *)
(* AlreadyExists; another io::Error ends the call in the turn it occurs    *)
(* in; and the call returns AlreadyExists exactly when its tenth turn      *)
(* finds the name taken, all ten names it tried being taken.               *)
C14_BoundedRetry ==
    /\ [](\A a \in Allocators : tmpdirs[a].retry \in 1..10)
    /\ [][\A a \in Allocators : Turn(a) =>
            LET t == tmpdirs[a]
                t2 == tmpdirs'[a]
                taken == TmpName(t.n) \in DOMAIN fs
            IN  /\ t2.n = t.n + 1
                /\ t2.retry # 1 => (t2.retry = t.retry + 1 /\ taken /\ t.retry < 10)
                /\ t2.result.kind = "other" => t2.retry = 1
                /\ t2.result.kind = "ok" => ~taken
                /\ t2.result.kind = "exists" <=>
                     (t.retry = 10 /\ taken /\ t2.result.kind # "other")
                /\ t2.result.kind = "exists" =>
                     /\ t2.retry = 1
                     /\ \A k \in 0..9 : TmpName(t.n - k) \in DOMAIN fs
       ]_vars

\* A create() call has returned AlreadyExists after ten turns.
C14_Witness ==
    \E a \in Allocators :
        /\ tmpdirs[a].result.kind = "exists"
        /\ tmpdirs[a].retry = 1
        /\ \A k \in 1..10 : TmpName(tmpdirs[a].n - k) \in DOMAIN fs

\* No path has been returned by two create() calls, and a step that makes
\* create() return a path makes a new file and leaves every file that was
\* there as it was.
NoPathTwice ==
    /\ [](\A x, y \in ReturnedPaths : x[3] = y[3] => x = y)
    /\ [][\A a \in Allocators : Turn(a) =>
            /\ \A p \in DOMAIN fs : p \in DOMAIN fs' /\ fs'[p] = fs[p]
            /\ ReturnedOk(a) => tmpdirs'[a].result.filename \notin DOMAIN fs
       ]_vars

(* C20, as stated.  TmpDir values with their own counters and other        *)
(* programs making files take their steps in any order: no path is         *)
(* returned by two create() calls, no file that is there is opened or      *)
(* changed, and no create() call returns the name collision as an error.   *)
C20_CollisionNeverSurfaces ==
    /\ NoPathTwice
    /\ [](\A a \in Allocators : tmpdirs[a].result.kind # "exists")

(* C20, amended.  In any order of the steps, no path is returned by two    *)
(* create() calls and no file that is there is opened or changed; a name   *)
(* that is taken makes create() go on to the next name, and the collision  *)
(* is returned as an error only when ten names in a row were taken.        *)
C20_CollisionAbsorbedUpToBudget ==
    /\ NoPathTwice
    /\ [][\A a \in Allocators :
            (Turn(a) /\ TmpName(tmpdirs[a].n) \in DOMAIN fs
                /\ tmpdirs[a].retry < 10 /\ tmpdirs'[a].result.kind # "other")
            => /\ tmpdirs'[a].result.kind = "none"
               /\ tmpdirs'[a].retry = tmpdirs[a].retry + 1
       ]_vars
    /\ [](\A a \in Allocators : tmpdirs[a].result.kind = "exists" =>
            \A k \in 1..10 : TmpName(tmpdirs[a].n - k) \in DOMAIN fs)

\* Two TmpDir values with the same counter have both returned two paths,
\* the first path of the clone between the two of the original.
C20_Witness ==
    /\ Len(tmpdirs[1].paths) >= 2
    /\ Len(tmpdirs[2].paths) >= 2
    /\ StrLess(tmpdirs[1].paths[1], tmpdirs[2].paths[1])
    /\ StrLess(tmpdirs[2].paths[1], tmpdirs[1].paths[2])
    /\ ExternalFiles(fs) # {}

---------------------------------------------------------------------------
(* The readers on files that may be cut short.  A file is written, and may *)
(* lose its end (a writer that died, a full disk); then it is decoded with *)
(* get_index_from_file, or opened with open_and_delete and its entries     *)
(* moved to a writer one after the other, for as long as the caller goes   *)
(* on calling move_entry_to.                                               *)

ReadSource == ReadDocumentUpTo(MaxReadChars)

\* The name of a file that is not in the directory: the counter starts at 1.
MissingFile == TmpName(0)

\* The file keeps only its first k bytes.
Truncate ==
    /\ pc = "spilled"
    /\ \E filename \in DOMAIN fs :
        \E k \in 0..(Len(fs[filename]) - 1) :
            fs' = WithFile(fs, filename, SubSeq(fs[filename], 1, k))
    /\ UNCHANGED <<pc, tmp_n, parsed>>
    /\ UNCHANGED buildVars
    /\ UNCHANGED mergeVars
    /\ UNCHANGED allocVars

\* A caller picks a file name and makes the writer the entries will go to.
StartCopy ==
    /\ pc = "spilled"
    /\ \E filename \in DOMAIN fs \cup {MissingFile} : inputs' = <<filename>>
    /\ LET created == TmpCreate(DOMAIN fs, tmp_n)
       IN  /\ created.ok
           /\ tmp_n' = created.n
           /\ fs' = WithFile(fs, created.filename, <<>>)
           /\ output' = Some([filename |-> created.filename, writer |-> WriterNew])
    /\ pc' = "opening"
    /\ UNCHANGED <<parsed, streams, cur, work>>
    /\ UNCHANGED buildVars
    /\ UNCHANGED allocVars

\* IndexFileReader::open_and_delete(filename) returns a reader.
OpenOk ==
    /\ pc = "opening"
    /\ LET opened == OpenAndDelete(fs, inputs[1])
       IN  /\ opened.ok
           /\ fs' = opened.dir
           /\ streams' = <<opened.reader>>
    /\ pc' = "reading"
    /\ UNCHANGED <<tmp_n, parsed, inputs, output, cur, work>>
    /\ UNCHANGED buildVars
    /\ UNCHANGED allocVars

\* IndexFileReader::open_and_delete(filename) returns an error.
OpenErr ==
    /\ pc = "opening"
    /\ LET opened == OpenAndDelete(fs, inputs[1])
       IN  /\ ~opened.ok
           /\ fs' = opened.dir
    /\ pc' = "open_failed"
    /\ UNCHANGED <<tmp_n, parsed, inputs, streams, output, cur, work>>
    /\ UNCHANGED buildVars
    /\ UNCHANGED allocVars

\* reader.move_entry_to(&mut writer), whatever the reader is at: the call
\* returns Ok, returns an error, or panics.
MoveCall(kind, next) ==
    /\ pc = "reading"
    /\ LET moved == MoveEntryTo(streams[1], output[1].writer)
       IN  /\ moved.kind = kind
           /\ streams' = <<moved.reader>>
           /\ output' = Some([output[1] EXCEPT !.writer = moved.out])
    /\ pc' = next
    /\ UNCHANGED <<fs, tmp_n, parsed, inputs, cur, work>>
    /\ UNCHANGED buildVars
    /\ UNCHANGED allocVars

MoveOk == MoveCall("ok", "reading")

MoveErr == MoveCall("err", "move_failed")

MovePanic == MoveCall("panic", "panicked")

NextRead ==
    \/ ReadSource
    \/ MergeDocument
    \/ Spill
    \/ Truncate
    \/ Decode
    \/ StartCopy
    \/ OpenOk
    \/ OpenErr
    \/ MoveOk
    \/ MoveErr
    \/ MovePanic

SpecRead == Init /\ [][NextRead]_vars

---------------------------------------------------------------------------
(* Where a table of contents ends, by the layout of its records: 8 bytes   *)
(* of offset, 8 of length, 4 of document count, 4 of term length and the   *)
(* term.                                                                   *)

\* The input ends exactly where the record at pos would start.
EndsAt(f, pos) == pos >= Len(f)

\* The record at pos is there to its last byte.
WholeRecord(f, pos) ==
    /\ CanRead(f, pos, 24)
    /\ CanRead(f, pos + 24, GetU32(f, pos + 20))

\* The input ends inside the record at pos, after one byte of it at least.
EndsInside(f, pos) == ~EndsAt(f, pos) /\ ~WholeRecord(f, pos)

\* Where the walk over the whole records from pos on stops.
RECURSIVE LastRecordPos(_, _)
LastRecordPos(f, pos) ==
    IF WholeRecord(f, pos) THEN LastRecordPos(f, pos + 24 + GetU32(f, pos + 20))
    ELSE pos

\* open_and_delete, or move_entry_to, has just read a record of the table
\* of contents of file f at ReadPos.
OpenStep == pc = "opening" /\ pc' # "opening" /\ inputs[1] \in DOMAIN fs
                /\ CanRead(fs[inputs[1]], 0, 8)

ReadStep == pc = "reading" /\ pc' \in {"reading", "move_failed"}

(* C15, as stated.  Where the input ends exactly at the start of a record  *)
(* of the table of contents, the table ends: the streaming reader's        *)
(* pending entry becomes empty and get_index_from_file returns Ok.  Where  *)
(* the input ends inside a record, after a part of the first field too,    *)
(* the readers return an error and never end the table as if it were       *)
(* whole.                                                                  *)
C15_EndOfTocDetection ==
    /\ [][OpenStep =>
            LET f == fs[inputs[1]]
                pos == GetU64(f, 0)
            IN  /\ EndsAt(f, pos) => (pc' = "reading" /\ Peek(streams'[1]) = None)
                /\ EndsInside(f, pos) => pc' = "open_failed"
       ]_vars
    /\ [][ReadStep =>
            LET f == streams[1].file
                pos == streams[1].table_of_contents
            IN  /\ EndsAt(f, pos) => (pc' = "reading" /\ Peek(streams'[1]) = None)
                /\ EndsInside(f, pos) => pc' = "move_failed"
       ]_vars
    /\ [](parsed # None =>
            LET f == fs[parsed[1].filename]
            IN  CanRead(f, 0, 8) =>
                    LET last == LastRecordPos(f, GetU64(f, 0))
                    IN  /\ EndsInside(f, last) => parsed[1].result.kind # "ok"
                        /\ (EndsAt(f, last) /\ parsed[1].result.kind # "ok") =>
                              \E e \in {Toc(f)[k] : k \in 1..Len(Toc(f))} :
                                 ~DecodeHits(Slice(f, e.offset, e.nbytes), 0,
                                             e.doc_count, <<>>).ok)

(* C16.  A reader whose pending entry is empty keeps it empty: peek gives  *)
(* none and is_at is false for every term, and a move_entry_to panics and  *)
(* leaves the reader, the writer and the directory as they were; and the   *)
(* pending entry is empty after the move that reads the end of the table.  *)
C16_ExhaustedReader ==
    /\ [](\A k \in 1..Len(streams) :
            streams[k].next = None =>
                /\ Peek(streams[k]) = None
                /\ \A filename \in DOMAIN written :
                     \A term \in DOMAIN written[filename].map \cup {<<>>} :
                        ~IsAt(streams[k], term))
    /\ [][(pc = "reading" /\ streams[1].next = None) =>
            /\ pc' = "panicked"
            /\ streams' = streams
            /\ output' = output
            /\ fs' = fs
       ]_vars
    /\ [][(pc = "reading" /\ pc' = "reading"
            /\ EndsAt(streams[1].file, streams[1].table_of_contents))
           => streams'[1].next = None
       ]_vars
    /\ [][(streams # <<>> /\ streams[1].next = None /\ pc \in {"reading", "panicked"})
           => streams'[1].next = None
       ]_vars

\* A reader has moved the two entries of a whole file, and the move after
\* the last has panicked, the writer holding the bytes of both entries.
C16_Witness ==
    /\ pc = "panicked"
    /\ streams[1].next = None
    /\ Len(Toc(streams[1].file)) = 2
    /\ EndsAt(streams[1].file, streams[1].table_of_contents)
    /\ output[1].writer.offset = streams[1].data
    /\ output[1].writer.offset > HEADER_SIZE

---------------------------------------------------------------------------
(* C17.  From the start of a merge on, the readers a pass has opened, and  *)
(* the files of its group, are never more than the fan-in limit, however   *)
(* many files the merge was handed.                                        *)
C17_FanInCap ==
    pc \in {"round", "open", "select", "move", "merged"} =>
        /\ Len(streams) <= work.fanin
        /\ Len(inputs) <= work.fanin

\* A pass has as many readers open as the limit allows, while a file of
\* the round is still waiting for the next pass.
C17_Witness ==
    /\ pc \in {"select", "move"}
    /\ Len(streams) = work.fanin
    /\ work.queue # <<>>
    /\ Len(Originals) > work.fanin

---------------------------------------------------------------------------
(* The order of the Hits inside a term's run of data.                      *)

\* The bytes the entries of a file's table of contents give to a term.
TermBytes(f, term) ==
    Concat([k \in 1..Len(Toc(f)) |->
              IF Toc(f)[k].term = term
              THEN Slice(f, Toc(f)[k].offset, Toc(f)[k].nbytes) ELSE <<>>])

\* The document hashes of the Hits in a run of data, in the order of the
\* run: a Hit is a hash, a count and that many 4-byte offsets.
RECURSIVE HashesIn(_, _)
HashesIn(bytes, pos) ==
    IF ~CanRead(bytes, pos, HASH_LENGTH + 4) THEN <<>>
    ELSE <<Slice(bytes, pos, HASH_LENGTH)>>
         \o HashesIn(bytes, pos + HASH_LENGTH + 4 + 4 * GetU32(bytes, pos + HASH_LENGTH))

\* Every term's run of the file holds its documents in increasing order.
FileSortedByDocument(f) ==
    \A term \in TocTerms(Toc(f)) :
        LET hs == HashesIn(TermBytes(f, term), 0)
        IN  \A k, l \in 1..Len(hs) : k < l => StrLess(hs[k], hs[l])

\* The documents of a file.
FileDocuments(f) ==
    UNION {{HashesIn(TermBytes(f, term), 0)[k] :
              k \in 1..Len(HashesIn(TermBytes(f, term), 0))} : term \in TocTerms(Toc(f))}

(* C18.  In the output of a merge pass the run of data of every term is    *)
(* the bytes the first file of the group has for the term, then the bytes  *)
(* the second has, and so on; so if every file of the group is sorted by   *)
(* document and the documents of each file are all less than the documents *)
(* of the files after it, the output is sorted by document for every term. *)
C18_OrderInsideTerm ==
    PassDone =>
        LET out == Toc(OutputFile)
            N == Len(streams)
        IN  /\ \A k \in 1..Len(out) :
                 Slice(OutputFile, out[k].offset, out[k].nbytes)
                   = Concat([i \in 1..N |-> TermBytes(streams[i].file, out[k].term)])
            /\ ((\A m \in 1..N : FileSortedByDocument(streams[m].file))
                 /\ (\A i, j \in 1..N : i < j =>
                        \A x \in FileDocuments(streams[i].file),
                           y \in FileDocuments(streams[j].file) : StrLess(x, y)))
                => FileSortedByDocument(OutputFile)

\* A finished pass over two sorted files that share a term, the documents
\* of the first less than those of the second: the term's run holds the
\* Hit of the first file, then the Hit of the second.
C18_Witness ==
    /\ PassDone
    /\ Len(streams) = 2
    /\ FileSortedByDocument(OutputFile)
    /\ \E term \in TocTerms(InputToc(1)) \cap TocTerms(InputToc(2)) :
        /\ Len(HashesIn(TermBytes(OutputFile, term), 0)) = 2
        /\ HashesIn(TermBytes(OutputFile, term), 0)[1]
             = HashesIn(TermBytes(streams[1].file, term), 0)[1]
        /\ HashesIn(TermBytes(OutputFile, term), 0)[2]
             = HashesIn(TermBytes(streams[2].file, term), 0)[1]

---------------------------------------------------------------------------
\* The index from_single_document holds after the first k tokens.
AfterTokens(document_hash, tokens, k) ==
    IndexTokens(NewIndex, document_hash, SubSeq(tokens, 1, k), 0)

---------------------------------------------------------------------------
\* The reader is on a file as write_index_to_tmp_file wrote it, whole.
OnWrittenFile ==
    /\ streams # <<>>
    /\ inputs[1] \in DOMAIN written
    /\ streams[1].file = WriteIndex(written[inputs[1]])

(* C21.  On a file the writer produced, a streaming reader with a pending  *)
(* entry has its data cursor at the offset of that entry, and the entry's  *)
(* bytes are there to be read: the cursor is 8 after open_and_delete, a    *)
(* move_entry_to that returns Ok advances it by the entry's byte length,   *)
(* and the bytes it hands to the writer are the bytes of the range the     *)
(* entry of the table of contents gives.                                   *)
C21_DataCursor ==
    /\ []((OnWrittenFile /\ Peek(streams[1]) # None) =>
            /\ streams[1].data = Peek(streams[1])[1].offset
            /\ CanRead(streams[1].file, streams[1].data, Peek(streams[1])[1].nbytes))
    /\ [][(pc = "opening" /\ pc' = "reading") => streams'[1].data = HEADER_SIZE]_vars
    /\ [][(pc = "reading" /\ pc' = "reading" /\ OnWrittenFile) =>
            LET r == streams[1]
                e == Peek(r)[1]
            IN  /\ streams'[1].data = r.data + e.nbytes
                /\ output'[1].writer.file
                     = output[1].writer.file \o Slice(r.file, e.offset, e.nbytes)
       ]_vars

\* A reader on a whole file of two terms is at its second entry, the first
\* entry, of two Hits, moved.
C21_Witness ==
    /\ pc = "reading"
    /\ OnWrittenFile
    /\ Len(Toc(streams[1].file)) = 2
    /\ Toc(streams[1].file)[1].doc_count = 2
    /\ Peek(streams[1]) = Some(Toc(streams[1].file)[2])
    /\ streams[1].data = Toc(streams[1].file)[2].offset
    /\ output[1].writer.offset = streams[1].data

---------------------------------------------------------------------------
\* open_and_delete has just returned, on the file name inputs[1].
OpenReturned == pc = "opening" /\ pc' \in {"reading", "open_failed"}

(* C22.  When open_and_delete returns an error, because the file is not    *)
(* there, its header cannot be read or its first record of the table of    *)
(* contents is cut short, the directory is as it was, the file in it and   *)
(* unchanged; when it returns a reader, the file, and only the file, is    *)
(* gone from the directory.                                                *)
C22_NoDeleteOnFailedOpen ==
    [][OpenReturned =>
        LET filename == inputs[1]
        IN  /\ pc' = "open_failed" => fs' = fs
            /\ pc' = "reading" =>
                /\ filename \in DOMAIN fs
                /\ DOMAIN fs' = DOMAIN fs \ {filename}
                /\ \A p \in DOMAIN fs' : fs'[p] = fs[p]
            /\ filename \notin DOMAIN fs => pc' = "open_failed"
            /\ (filename \in DOMAIN fs /\ ~CanRead(fs[filename], 0, 8))
                 => pc' = "open_failed"
            /\ (filename \in DOMAIN fs /\ CanRead(fs[filename], 0, 8)
                    /\ CanRead(fs[filename], GetU64(fs[filename], 0), 8)
                    /\ ~WholeRecord(fs[filename], GetU64(fs[filename], 0)))
                 => pc' = "open_failed"
    ]_vars

\* open_and_delete has returned an error on a file whose first record is
\* cut short after its first field, and the file is still there.
C22_Witness ==
    /\ pc = "open_failed"
    /\ inputs[1] \in DOMAIN fs
    /\ CanRead(fs[inputs[1]], 0, 8)
    /\ CanRead(fs[inputs[1]], GetU64(fs[inputs[1]], 0), 8)
    /\ ~WholeRecord(fs[inputs[1]], GetU64(fs[inputs[1]], 0))

---------------------------------------------------------------------------
\* The occurrence counts of the Hits of a hit list, and of all the hit
\* lists of the terms, added up.
RECURSIVE CountsOfHits(_)
CountsOfHits(hits) ==
    IF hits = <<>> THEN 0 ELSE HitCount(hits[1]) + CountsOfHits(Tail(hits))

RECURSIVE CountsOfTerms(_, _)
CountsOfTerms(map, terms) ==
    IF terms = {} THEN 0
    ELSE LET t == CHOOSE x \in terms : TRUE
         IN  CountsOfHits(map[t]) + CountsOfTerms(map, terms \ {t})

\* word_count counts the occurrences the Hits hold.
WordCountExact(idx) ==
    /\ idx.word_count = CountsOfTerms(idx.map, DOMAIN idx.map)
    /\ IsEmpty(idx) <=> DOMAIN idx.map = {}

(* C23.  In every index made by new(), from_single_document and merge,     *)
(* word_count is the sum of the occurrence counts of all Hits of all       *)
(* terms, is_empty() is true exactly when there is no term, and merge      *)
(* never makes word_count less.                                            *)
C23_WordCount ==
    /\ [](WordCountExact(index))
    /\ [](doc # None => WordCountExact(doc[1].index))
    /\ [](\A filename \in DOMAIN written : WordCountExact(written[filename]))
    /\ [][MergeStep => index'.word_count >= index.word_count]_vars

\* An index merged from two documents, one of them holding a term twice:
\* four occurrences in three Hits.
C23_Witness ==
    /\ pc = "build"
    /\ doc = None
    /\ index.word_count = 4
    /\ CountsOfTerms(index.map, DOMAIN index.map) = 4
    /\ \E term \in DOMAIN index.map :
        /\ Len(index.map[term]) = 2
        /\ HitCount(index.map[term][1]) + HitCount(index.map[term][2]) = 3
    /\ ~IsEmpty(index)

===========================================================================
